---- MODULE Spec2Model ----
(***************************************************************************)
(* Model of the insomnia questionnaire application (src/app.py): the form  *)
(* validation and page flow of main(), the rule-based scorer, the          *)
(* recommendation tiers of display_results and preprocess_input.           *)
(*                                                                         *)
(* Conventions.                                                            *)
(*  - A text value is a sequence of one-character strings.                 *)
(*  - Sleep Duration is held in half hours (the widget's step is 0.5), so  *)
(*    Hours(6) stands for 6.0.                                             *)
(*  - A probability is held in hundredths: 55 stands for 0.55.  On this    *)
(*    grid p * 100 is compared with 60, 70, 80 and 90 exactly as the       *)
(*    hundredth is (IEEE doubles: 0.6*100, 0.7*100, 0.8*100 and 0.9*100    *)
(*    are 60.0, 70.0, 80.0 and 90.0), and each table pair sums to 1.0.     *)
(*  - A quotient is held as the pair [num, den]; NaN is the value pandas   *)
(*    gives to a key its mapping does not know.                            *)
(***************************************************************************)
EXTENDS Integers, Sequences, FiniteSets, TLC

VARIABLES
    started,      \* st.session_state['started']
    model,        \* the st.cache_resource entry of load_model
    page,         \* st.session_state['page'] ("unset" while the key is absent)
    input_data,   \* st.session_state['input_data']
    view,         \* what the last script run left on the screen
    formError,    \* the validation error reported by the last run
    scored,       \* the record handed to the scorer during the last step
    risk,         \* the (prediction, prediction_proba) on the screen
    advice,       \* the recommendation blocks on the screen
    arg,          \* argument of a direct call of one function
    ret,          \* its return value
    pc            \* "ready" before the direct call, "done" after it

vars == <<started, model, page, input_data, view, formError, scored, risk,
          advice, arg, ret, pc>>

flowVars == <<started, model, page, input_data, view, formError, scored, risk,
              advice>>

callVars == <<arg, ret, pc>>

(***************************************************************************)
(* Bounds                                                                  *)
(***************************************************************************)
\* longest blood-pressure text enumerated for preprocess_input
MaxBPLen == 5

\* longest occupation text enumerated for the form's occupation check
MaxOccLen == 4

(***************************************************************************)
(* Text                                                                    *)
(***************************************************************************)
Letters == {"G", "u", "r", "D", "A", "B", "a"}

Digits == {"0", "1", "2", "4", "8"}

DigitVal(c) ==
    CASE c = "0" -> 0
      [] c = "1" -> 1
      [] c = "2" -> 2
      [] c = "4" -> 4
      [] c = "8" -> 8

\* characters str.strip() and float() treat as white space
Whitespace == {" "}

Has(s, c) == \E i \in 1..Len(s) : s[i] = c

\* s.replace(c, "")
Remove(s, c) == SelectSeq(s, LAMBDA x : x # c)

RECURSIVE LStrip(_)
LStrip(s) ==
    IF s # <<>> /\ Head(s) \in Whitespace THEN LStrip(Tail(s)) ELSE s

RECURSIVE RStrip(_)
RStrip(s) ==
    IF s # <<>> /\ s[Len(s)] \in Whitespace
        THEN RStrip(SubSeq(s, 1, Len(s) - 1))
        ELSE s

\* s.strip()
Strip(s) == RStrip(LStrip(s))

\* s.isalpha(): at least one character and every character a letter
IsAlpha(s) == s # <<>> /\ \A i \in 1..Len(s) : s[i] \in Letters

\* s.split('/'): the pieces between the separators, empty pieces kept
RECURSIVE Split(_)
Split(s) ==
    IF ~Has(s, "/")
        THEN <<s>>
        ELSE LET k == CHOOSE i \in 1..Len(s) :
                          s[i] = "/" /\ \A j \in 1..(i - 1) : s[j] # "/"
             IN  <<SubSeq(s, 1, k - 1)>> \o Split(SubSeq(s, k + 1, Len(s)))

AllDigits(s) == s # <<>> /\ \A i \in 1..Len(s) : s[i] \in Digits

RECURSIVE DecVal(_)
DecVal(s) ==
    IF s = <<>> THEN 0
    ELSE 10 * DecVal(SubSeq(s, 1, Len(s) - 1)) + DigitVal(s[Len(s)])

\* float(s) succeeds: surrounding white space is dropped, one sign is
\* allowed, and what is left is a decimal numeral (over the characters
\* modelled: no point, exponent, inf or nan can be spelled)
FloatOk(s) ==
    LET t == Strip(s)
        u == IF t # <<>> /\ Head(t) \in {"-", "+"} THEN Tail(t) ELSE t
    IN  AllDigits(u)

\* float(s) when FloatOk(s)
FloatVal(s) ==
    LET t == Strip(s)
    IN  IF Head(t) = "-" THEN 0 - DecVal(Tail(t))
        ELSE IF Head(t) = "+" THEN DecVal(Tail(t))
        ELSE DecVal(t)

\* half hours in h hours
Hours(h) == 2 * h

(***************************************************************************)
(* Numbers of a DataFrame row                                              *)
(***************************************************************************)
Quot(n, d) == [num |-> n, den |-> d]

Num(n) == Quot(n, 1)

\* what Series.map leaves for a key the mapping does not hold
NaN == Quot(0, 0)

Defined(v) == v.den # 0

(***************************************************************************)
(* The form's widgets (main, "form_home")                                  *)
(***************************************************************************)
GenderOptions == {"Perempuan", "Laki-laki"}

BMIOptions == {"Normal", "Normal Weight", "Overweight", "Obese"}

AgeMin == 18

AgeMax == 100

SleepMin == 3

SleepMax == 12

ScaleMin == 1

ScaleMax == 10

HeartMin == 40

HeartMax == 200

StepsMin == 1000

StepsMax == 20000

\* the widgets' initial values
DefaultAge == 30

DefaultSleep == 7

DefaultQuality == 7

DefaultActivity == 5

DefaultStress == 5

DefaultHeart == 80

DefaultSteps == 8000

(***************************************************************************)
(* predict_insomnia_rule_based                                             *)
(***************************************************************************)
\* RuleScore with the Obese rule weighted like the first three
RuleScore_ObeseWeight(d) ==
      (IF d.Sleep_Duration < Hours(6) THEN 2 ELSE 0)
    + (IF d.Quality_of_Sleep < 5 THEN 2 ELSE 0)
    + (IF d.Stress_Level > 7 THEN 2 ELSE 0)
    + (IF d.Physical_Activity_Level < 4 THEN 1 ELSE 0)
    + (IF d.BMI_Category = "Obese" THEN 2 ELSE 0)

\* RuleScore with the activity rule subtracting instead of adding
RuleScore_ActivitySubtracts(d) ==
      (IF d.Sleep_Duration < Hours(6) THEN 2 ELSE 0)
    + (IF d.Quality_of_Sleep < 5 THEN 2 ELSE 0)
    + (IF d.Stress_Level > 7 THEN 2 ELSE 0)
    - (IF d.Physical_Activity_Level < 4 THEN 1 ELSE 0)
    + (IF d.BMI_Category = "Obese" THEN 1 ELSE 0)

\* the score accumulated from the five rules
RuleScore(d) ==
      (IF d.Sleep_Duration < Hours(6) THEN 2 ELSE 0)
    + (IF d.Quality_of_Sleep < 5 THEN 2 ELSE 0)
    + (IF d.Stress_Level > 7 THEN 2 ELSE 0)
    + (IF d.Physical_Activity_Level < 4 THEN 1 ELSE 0)
    + (IF d.BMI_Category = "Obese" THEN 1 ELSE 0)

Result(p, n, i) == [prediction |-> p, prediction_proba |-> <<n, i>>]

\* ScoreToResult with the label taken from the larger probability
ScoreToResult_LabelFromProba(score) ==
    IF score >= 6 THEN Result(1, 10, 90)
    ELSE IF score = 5 THEN Result(1, 25, 75)
    ELSE IF score = 4 THEN Result(1, 40, 60)
    ELSE IF score = 3 THEN Result(0, 55, 45)
    ELSE IF score = 2 THEN Result(0, 70, 30)
    ELSE IF score = 1 THEN Result(0, 80, 20)
    ELSE Result(0, 90, 10)

\* ScoreToResult with one probability mistyped
ScoreToResult_RowTypo(score) ==
    IF score >= 6 THEN Result(1, 10, 90)
    ELSE IF score = 5 THEN Result(1, 25, 75)
    ELSE IF score = 4 THEN Result(1, 40, 65)
    ELSE IF score = 3 THEN Result(1, 55, 45)
    ELSE IF score = 2 THEN Result(0, 70, 30)
    ELSE IF score = 1 THEN Result(0, 80, 20)
    ELSE Result(0, 90, 10)

\* the if/elif chain from the score to (prediction, [Normal, Insomnia])
ScoreToResult(score) ==
    IF score >= 6 THEN Result(1, 10, 90)
    ELSE IF score = 5 THEN Result(1, 25, 75)
    ELSE IF score = 4 THEN Result(1, 40, 60)
    ELSE IF score = 3 THEN Result(1, 55, 45)
    ELSE IF score = 2 THEN Result(0, 70, 30)
    ELSE IF score = 1 THEN Result(0, 80, 20)
    ELSE Result(0, 90, 10)

predict_insomnia_rule_based(d) == ScoreToResult(RuleScore(d))

(***************************************************************************)
(* display_results: the recommendation blocks it renders, in order         *)
(***************************************************************************)
NoProba == <<>>

\* InsomniaTier with the boundaries in the lower tier
InsomniaTier_Strict(insomnia_prob) ==
    IF insomnia_prob > 80 THEN "high"
    ELSE IF insomnia_prob > 60 THEN "moderate"
    ELSE "low"

InsomniaTier(insomnia_prob) ==
    IF insomnia_prob >= 80 THEN "high"
    ELSE IF insomnia_prob >= 60 THEN "moderate"
    ELSE "low"

\* NormalTier with the boundaries in the lower tier
NormalTier_Strict(normal_prob) ==
    IF normal_prob > 90 THEN "excellent"
    ELSE IF normal_prob > 70 THEN "good"
    ELSE "fair"

NormalTier(normal_prob) ==
    IF normal_prob >= 90 THEN "excellent"
    ELSE IF normal_prob >= 70 THEN "good"
    ELSE "fair"

display_results(prediction, prediction_proba) ==
    IF prediction = 1
        THEN IF prediction_proba # NoProba
                 THEN <<InsomniaTier(prediction_proba[2])>>
                 ELSE <<>>
    ELSE IF prediction = 0
        THEN IF prediction_proba # NoProba
                 THEN <<NormalTier(prediction_proba[1])>>
                 ELSE <<>>
    ELSE <<"unrecognised">>

(***************************************************************************)
(* preprocess_input                                                        *)
(***************************************************************************)
ValueError == <<"ValueError">>

GenderMap(g) ==
    IF g = "Female" THEN Num(0)
    ELSE IF g = "Male" THEN Num(1)
    ELSE NaN

bmi_mapping(b) ==
    IF b \in {"Normal", "Normal Weight", "Underweight"} THEN Num(0)
    ELSE IF b = "Overweight" THEN Num(1)
    ELSE IF b = "Obese" THEN Num(2)
    ELSE NaN

Col(c, v) == [col |-> c, val |-> v]

\* the row in the order of expected_columns; Occupation and Blood Pressure
\* are not among them
FeatureRow(d, systolic, diastolic) ==
    << Col("Gender", GenderMap(d.Gender)),
       Col("Age", Num(d.Age)),
       Col("Sleep Duration", Quot(d.Sleep_Duration, Hours(1))),
       Col("Quality of Sleep", Num(d.Quality_of_Sleep)),
       Col("Physical Activity Level", Num(d.Physical_Activity_Level)),
       Col("Stress Level", Num(d.Stress_Level)),
       Col("BMI Category", bmi_mapping(d.BMI_Category)),
       Col("Heart Rate", Num(d.Heart_Rate)),
       Col("Daily Steps", Num(d.Daily_Steps)),
       Col("Systolic", Num(systolic)),
       Col("Diastolic", Num(diastolic)),
       Col("Sleep_Efficiency", Quot(d.Sleep_Duration, Hours(24))),
       Col("Stress_Sleep_Interaction",
           Num(d.Stress_Level * d.Quality_of_Sleep)),
       Col("Activity_Efficiency",
           Quot(d.Daily_Steps, d.Physical_Activity_Level + 1)),
       Col("Stress_Sleep_Ratio",
           Quot(d.Stress_Level, d.Quality_of_Sleep + 1)),
       Col("Sleep_Age_Ratio", Quot(d.Sleep_Duration, Hours(d.Age + 1))) >>

\* preprocess_input with 0 taken for a part that does not parse
preprocess_input_DefaultZero(d) ==
    LET bp_value == d.Blood_Pressure
        bp_split == Split(bp_value)
        part(i) == IF FloatOk(bp_split[i]) THEN FloatVal(bp_split[i]) ELSE 0
    IN  IF bp_value = <<>> \/ ~Has(bp_value, "/")
            THEN ValueError
        ELSE FeatureRow(d, part(1), part(2))

\* the data always carries the 'Blood Pressure' key
preprocess_input(d) ==
    LET bp_value == d.Blood_Pressure
        bp_split == Split(bp_value)
    IN  IF bp_value = <<>> \/ ~Has(bp_value, "/")
            THEN ValueError
        ELSE IF ~(FloatOk(bp_split[1]) /\ FloatOk(bp_split[2]))
            THEN ValueError
        ELSE FeatureRow(d, FloatVal(bp_split[1]), FloatVal(bp_split[2]))

(***************************************************************************)
(* Values standing for None                                                *)
(***************************************************************************)
NoRecord == [none |-> "input_data"]

NoResult == [none |-> "result"]

NoArg == [none |-> "arg"]

NoReturn == [none |-> "return"]

(***************************************************************************)
(* Input records                                                           *)
(***************************************************************************)
Guru == <<"G", "u", "r", "u">>

BP_120_80 == <<"1", "2", "0", "/", "8", "0">>

Scale == ScaleMin..ScaleMax

SleepSteps == Hours(SleepMin)..Hours(SleepMax)

\* the BMI categories of the data model: the form's options and the
\* Underweight key of bmi_mapping
BMICategories == BMIOptions \cup {"Underweight"}

\* every combination of the fields the scorer reads
ScorerInputs ==
    [ Gender : {"Perempuan"},
      Age : {DefaultAge},
      Occupation : {Guru},
      Sleep_Duration : SleepSteps,
      Quality_of_Sleep : Scale,
      Physical_Activity_Level : Scale,
      Stress_Level : Scale,
      BMI_Category : BMICategories,
      Blood_Pressure : {BP_120_80},
      Heart_Rate : {DefaultHeart},
      Daily_Steps : {DefaultSteps} ]

BPChars == {"1", "8", "/", "a", "-", " "}

BPTexts == UNION { [1..n -> BPChars] : n \in 0..MaxBPLen }

\* every blood-pressure text on the record of test_prediction.py, and every
\* encoding of the categorical fields on a well-formed blood pressure
PreprocessInputs ==
    [ Gender : {"Perempuan", "Female"},
      Age : {DefaultAge},
      Occupation : {Guru},
      Sleep_Duration : {Hours(DefaultSleep)},
      Quality_of_Sleep : {DefaultQuality},
      Physical_Activity_Level : {DefaultActivity},
      Stress_Level : {DefaultStress},
      BMI_Category : {"Normal"},
      Blood_Pressure : BPTexts,
      Heart_Rate : {DefaultHeart},
      Daily_Steps : {DefaultSteps} ]
    \cup
    [ Gender : GenderOptions \cup {"Female", "Male"},
      Age : {AgeMin, DefaultAge, AgeMax},
      Occupation : {Guru},
      Sleep_Duration : {Hours(SleepMin), Hours(DefaultSleep)},
      Quality_of_Sleep : {ScaleMin, DefaultQuality},
      Physical_Activity_Level : {DefaultActivity},
      Stress_Level : {DefaultStress, ScaleMax},
      BMI_Category : BMICategories,
      Blood_Pressure : {BP_120_80},
      Heart_Rate : {DefaultHeart},
      Daily_Steps : {StepsMin, DefaultSteps} ]

Hundredths == 0..100

\* every label with every probability pair summing to 1, or with none
DisplayInputs ==
    [ prediction : {0, 1, 2},
      prediction_proba :
          {NoProba} \cup { <<100 - h, h>> : h \in Hundredths } ]

(***************************************************************************)
(* Direct calls of the three functions                                     *)
(***************************************************************************)
FlowInit ==
    /\ started = FALSE
    /\ model = "unloaded"
    /\ page = "unset"
    /\ input_data = NoRecord
    /\ view = "welcome"
    /\ formError = "none"
    /\ scored = NoRecord
    /\ risk = NoResult
    /\ advice = <<>>

CallInit(inputs) ==
    /\ FlowInit
    /\ arg \in inputs
    /\ ret = NoReturn
    /\ pc = "ready"

Return(value) ==
    /\ pc = "ready"
    /\ ret' = value
    /\ pc' = "done"
    /\ UNCHANGED <<arg, flowVars>>

CallScorer == Return(predict_insomnia_rule_based(arg))

CallDisplay == Return(display_results(arg.prediction, arg.prediction_proba))

CallPreprocess == Return(preprocess_input(arg))

SpecScorer == CallInit(ScorerInputs) /\ [][CallScorer]_vars

SpecDisplay == CallInit(DisplayInputs) /\ [][CallDisplay]_vars

SpecPreprocess == CallInit(PreprocessInputs) /\ [][CallPreprocess]_vars

\* the result page's two calls: the scorer, then display_results on what it
\* returned
CallScoreAndDisplay ==
    LET r == predict_insomnia_rule_based(arg)
    IN  Return([ result |-> r,
                 advice |-> display_results(r.prediction,
                                            r.prediction_proba) ])

SpecAdvice == CallInit(ScorerInputs) /\ [][CallScoreAndDisplay]_vars

\* records on both sides of every threshold of the scorer, in pairs
ThresholdRecords ==
    [ Gender : {"Perempuan"},
      Age : {DefaultAge},
      Occupation : {Guru},
      Sleep_Duration : {Hours(6) - 1, Hours(6), Hours(SleepMax)},
      Quality_of_Sleep : {ScaleMin, 4, 5},
      Physical_Activity_Level : {3, 4, ScaleMax},
      Stress_Level : {ScaleMin, 7, 8},
      BMI_Category : {"Normal", "Overweight", "Obese"},
      Blood_Pressure : {BP_120_80},
      Heart_Rate : {DefaultHeart},
      Daily_Steps : {DefaultSteps} ]

ScorerPairs == ThresholdRecords \X ThresholdRecords

\* the scorer called on one record and then on another
CallScorerPair ==
    Return(<< predict_insomnia_rule_based(arg[1]),
              predict_insomnia_rule_based(arg[2]) >>)

SpecScorerPair == CallInit(ScorerPairs) /\ [][CallScorerPair]_vars

(***************************************************************************)
(* main: the checks run on a submitted form, in the code's order           *)
(***************************************************************************)
\* FormError with the hyphen not removed before isalpha
FormError_HyphenKept(f) ==
    IF \/ f.Gender = ""
       \/ f.Age = 0
       \/ f.Occupation = <<>>
       \/ f.Sleep_Duration = 0
       \/ f.Quality_of_Sleep = 0
       \/ f.Physical_Activity_Level = 0
       \/ f.Stress_Level = 0
       \/ f.BMI_Category = ""
       \/ f.Blood_Pressure = <<>>
       \/ f.Heart_Rate = 0
       \/ f.Daily_Steps = 0
        THEN "missing"
    ELSE IF f.Occupation = <<>> \/ Strip(f.Occupation) = <<>>
        THEN "occupation_empty"
    ELSE IF ~IsAlpha(Remove(Remove(f.Occupation, " "), "."))
        THEN "occupation_format"
    ELSE IF f.Blood_Pressure = <<>> \/ ~Has(f.Blood_Pressure, "/")
        THEN "blood_pressure"
    ELSE IF f.Age < AgeMin \/ f.Age > AgeMax
        THEN "age"
    ELSE IF f.Sleep_Duration < Hours(SleepMin)
            \/ f.Sleep_Duration > Hours(SleepMax)
        THEN "sleep_duration"
    ELSE IF f.Heart_Rate < HeartMin \/ f.Heart_Rate > HeartMax
        THEN "heart_rate"
    ELSE IF f.Daily_Steps < StepsMin \/ f.Daily_Steps > StepsMax
        THEN "daily_steps"
    ELSE "none"

\* the checks, each returning with its error, and "none" when all pass
FormError(f) ==
    IF \/ f.Gender = ""
       \/ f.Age = 0
       \/ f.Occupation = <<>>
       \/ f.Sleep_Duration = 0
       \/ f.Quality_of_Sleep = 0
       \/ f.Physical_Activity_Level = 0
       \/ f.Stress_Level = 0
       \/ f.BMI_Category = ""
       \/ f.Blood_Pressure = <<>>
       \/ f.Heart_Rate = 0
       \/ f.Daily_Steps = 0
        THEN "missing"
    ELSE IF f.Occupation = <<>> \/ Strip(f.Occupation) = <<>>
        THEN "occupation_empty"
    ELSE IF ~IsAlpha(Remove(Remove(Remove(f.Occupation, " "), "-"), "."))
        THEN "occupation_format"
    ELSE IF f.Blood_Pressure = <<>> \/ ~Has(f.Blood_Pressure, "/")
        THEN "blood_pressure"
    ELSE IF f.Age < AgeMin \/ f.Age > AgeMax
        THEN "age"
    ELSE IF f.Sleep_Duration < Hours(SleepMin)
            \/ f.Sleep_Duration > Hours(SleepMax)
        THEN "sleep_duration"
    ELSE IF f.Heart_Rate < HeartMin \/ f.Heart_Rate > HeartMax
        THEN "heart_rate"
    ELSE IF f.Daily_Steps < StepsMin \/ f.Daily_Steps > StepsMax
        THEN "daily_steps"
    ELSE "none"

\* what the user can enter in the form: values inside the widgets' ranges
\* and any text in the two text fields
OccupationTexts ==
    { <<>>, <<" ">>, <<"-">>, Guru, <<"G", "4">> }

BloodPressureTexts ==
    { <<>>, <<"1", "2", "0">>, BP_120_80, <<"a", "/", "8">>, <<"/">>,
      <<"1", "/", "8", "/", "1">> }

FormInputs ==
    [ Gender : GenderOptions,
      Age : {DefaultAge},
      Occupation : OccupationTexts,
      Sleep_Duration : {Hours(6) - 1, Hours(DefaultSleep)},
      Quality_of_Sleep : {4, DefaultQuality},
      Physical_Activity_Level : {DefaultActivity},
      Stress_Level : {DefaultStress, 8},
      BMI_Category : {"Normal", "Obese"},
      Blood_Pressure : BloodPressureTexts,
      Heart_Rate : {DefaultHeart},
      Daily_Steps : {DefaultSteps} ]

\* every occupation text up to the bound over a letter of each case, a
\* digit and the three characters the check removes, on a form that is
\* otherwise acceptable
OccChars == {"G", "a", "4", " ", "-", "."}

OccTexts == UNION { [1..n -> OccChars] : n \in 0..MaxOccLen }

OccupationForms ==
    [ Gender : {"Perempuan"},
      Age : {DefaultAge},
      Occupation : OccTexts,
      Sleep_Duration : {Hours(DefaultSleep)},
      Quality_of_Sleep : {DefaultQuality},
      Physical_Activity_Level : {DefaultActivity},
      Stress_Level : {DefaultStress},
      BMI_Category : {"Normal"},
      Blood_Pressure : {BP_120_80},
      Heart_Rate : {DefaultHeart},
      Daily_Steps : {DefaultSteps} ]

\* the checks of a submission run on one form
CallFormError == Return(FormError(arg))

SpecOccupation == CallInit(OccupationForms) /\ [][CallFormError]_vars

(***************************************************************************)
(* main: one user event and the script runs it causes                      *)
(***************************************************************************)
Pages == {"home", "result", "info", "credit"}

NoForm == [none |-> "form"]

\* the screen of a run that ends on page p without a result on it
Shows(p) ==
    /\ view' = p
    /\ risk' = NoResult
    /\ advice' = <<>>

\* ResultPage with a score that is not reset between calls: the score of the
\* record scored before is carried into the next call
ResultPage_CarriedScore(d) ==
    IF d # NoRecord
        THEN LET carried == IF input_data # NoRecord
                                THEN RuleScore(input_data)
                                ELSE 0
                 r == ScoreToResult(RuleScore(d) + carried)
             IN  /\ scored' = d
                 /\ risk' = r
                 /\ advice' = display_results(r.prediction, r.prediction_proba)
        ELSE /\ scored' = NoRecord
             /\ risk' = NoResult
             /\ advice' = <<>>

\* the result page: the scorer runs on the stored record and the result is
\* rendered
ResultPage(d) ==
    IF d # NoRecord
        THEN LET r == predict_insomnia_rule_based(d)
             IN  /\ scored' = d
                 /\ risk' = r
                 /\ advice' = display_results(r.prediction, r.prediction_proba)
        ELSE /\ scored' = NoRecord
             /\ risk' = NoResult
             /\ advice' = <<>>

\* SubmitRejected without the return: the error is shown and the run goes
\* on to store the form and open the result page
SubmitRejected_NoReturn(err, f) ==
    /\ formError' = err
    /\ input_data' = f
    /\ page' = "result"
    /\ view' = "result"
    /\ ResultPage(f)

\* the submitted form f fails a check: the error is shown and the run
\* returns
SubmitRejected(err, f) ==
    /\ formError' = err
    /\ page' = "home"
    /\ scored' = NoRecord
    /\ Shows("home")
    /\ UNCHANGED input_data

\* SubmitAccepted without the assignment to st.session_state['input_data']:
\* the result page renders whatever record was stored before
SubmitAccepted_NoStore(f) ==
    /\ formError' = "none"
    /\ page' = "result"
    /\ view' = "result"
    /\ ResultPage(input_data)
    /\ UNCHANGED input_data

\* the submitted form passes: it is stored, the page becomes 'result' and
\* st.rerun() runs the script again, which renders the result page
SubmitAccepted(f) ==
    /\ formError' = "none"
    /\ input_data' = f
    /\ page' = "result"
    /\ view' = "result"
    /\ ResultPage(f)

\* the script from the model gate on, for the click that caused the run
\* (a sidebar button, "submit", "kembali" or "none") with the form's content
Main(click, f) ==
    /\ model' \in (IF model = "unloaded" THEN {"ok", "none"} ELSE {model})
    /\ IF model' = "none"
           THEN /\ formError' = "none"
                /\ scored' = NoRecord
                /\ Shows("model_error")
                /\ UNCHANGED <<page, input_data>>
           ELSE LET p0 == IF page = "unset" THEN "home" ELSE page
                    p1 == IF click = "btn_credit" THEN "credit"
                          ELSE IF click = "btn_info" THEN "info"
                          ELSE IF click = "btn_home" THEN "home"
                          ELSE p0
                IN  IF p1 = "home"
                        THEN IF click = "submit"
                                 THEN IF FormError(f) # "none"
                                          THEN SubmitRejected(FormError(f), f)
                                          ELSE SubmitAccepted(f)
                                 ELSE /\ formError' = "none"
                                      /\ page' = "home"
                                      /\ scored' = NoRecord
                                      /\ Shows("home")
                                      /\ UNCHANGED input_data
                    ELSE IF p1 = "result"
                        THEN IF click = "kembali"
                                 THEN /\ formError' = "none"
                                      /\ page' = "home"
                                      /\ scored' = input_data
                                      /\ Shows("home")
                                      /\ UNCHANGED input_data
                                 ELSE /\ formError' = "none"
                                      /\ page' = "result"
                                      /\ view' = "result"
                                      /\ ResultPage(input_data)
                                      /\ UNCHANGED input_data
                    ELSE /\ formError' = "none"
                         /\ page' = p1
                         /\ scored' = NoRecord
                         /\ Shows(p1)
                         /\ UNCHANGED input_data

\* the "Mulai" button of the welcome screen: the first click sets 'started'
\* and returns with the welcome screen still shown; once started, the run
\* goes on to the model gate
ClickMulai ==
    /\ view = "welcome"
    /\ IF ~started
           THEN /\ started' = TRUE
                /\ UNCHANGED <<model, page, input_data, view, formError,
                               scored, risk, advice>>
           ELSE /\ Main("none", NoForm)
                /\ UNCHANGED started
    /\ UNCHANGED callVars

\* ClickSidebar with the Credits button storing a page name that no branch
\* of the page content knows, so the run renders no page
ClickSidebar_Typo(b) ==
    /\ view \in Pages
    /\ IF b = "btn_credit"
           THEN /\ page' = "credits"
                /\ formError' = "none"
                /\ scored' = NoRecord
                /\ Shows("blank")
                /\ UNCHANGED <<model, input_data>>
           ELSE Main(b, NoForm)
    /\ UNCHANGED <<started, callVars>>

\* a sidebar button: 'Form Input', 'Info' or 'Credits'
ClickSidebar(b) ==
    /\ view \in Pages
    /\ Main(b, NoForm)
    /\ UNCHANGED <<started, callVars>>

\* the form's submit button
Submit(f) ==
    /\ view = "home"
    /\ Main("submit", f)
    /\ UNCHANGED <<started, callVars>>

\* the "Kembali" button of the result page
ClickKembali ==
    /\ view = "result"
    /\ Main("kembali", NoForm)
    /\ UNCHANGED <<started, callVars>>

\* a new browser session: session_state is empty again, the cache_resource
\* entry of load_model is kept by the process
Reload ==
    /\ started' = FALSE
    /\ page' = "unset"
    /\ input_data' = NoRecord
    /\ view' = "welcome"
    /\ formError' = "none"
    /\ scored' = NoRecord
    /\ risk' = NoResult
    /\ advice' = <<>>
    /\ UNCHANGED <<model, callVars>>

Init ==
    /\ FlowInit
    /\ arg = NoArg
    /\ ret = NoReturn
    /\ pc = "idle"

Next ==
    \/ ClickMulai
    \/ \E b \in {"btn_home", "btn_info", "btn_credit"} : ClickSidebar(b)
    \/ \E f \in FormInputs : Submit(f)
    \/ ClickKembali
    \/ Reload

Spec == Init /\ [][Next]_vars

(***************************************************************************)
(* The rule-based scorer (checked under SpecScorer)                        *)
(***************************************************************************)
\* the five conditions of the scoring rule, with their weights
Triggers(d) ==
    << d.Sleep_Duration < Hours(6),
       d.Quality_of_Sleep < 5,
       d.Stress_Level > 7,
       d.Physical_Activity_Level < 4,
       d.BMI_Category = "Obese" >>

Weights == <<2, 2, 2, 1, 1>>

RECURSIVE WeightedSum(_, _)
WeightedSum(t, k) ==
    IF k = 0 THEN 0
    ELSE WeightedSum(t, k - 1) + (IF t[k] THEN Weights[k] ELSE 0)

TableScore(d) == WeightedSum(Triggers(d), Len(Weights))

\* the score table: label (0 Normal, 1 Insomnia), pNormal, pInsomnia
TableRow(s) ==
    CASE s = 0 -> Result(0, 90, 10)
      [] s = 1 -> Result(0, 80, 20)
      [] s = 2 -> Result(0, 70, 30)
      [] s = 3 -> Result(1, 55, 45)
      [] s = 4 -> Result(1, 40, 60)
      [] s = 5 -> Result(1, 25, 75)
      [] s >= 6 -> Result(1, 10, 90)

\* C1: for every valid Input Record the scorer returns the table row of the
\* weighted sum of the five conditions, and the label is Insomnia iff the
\* score is at least 3 and Normal iff it is at most 2.
C1_ScoreTable ==
    pc = "done" =>
        LET s == TableScore(arg)
        IN  /\ ret = TableRow(s)
            /\ ret.prediction = 1 <=> s >= 3
            /\ ret.prediction = 0 <=> s <= 2

\* a record of score 3, the lowest score labelled Insomnia, has been scored
C1_Witness ==
    /\ pc = "done"
    /\ TableScore(arg) = 3
    /\ ret = Result(1, 55, 45)

\* C2: the score of a valid Input Record lies in 0..8, is 8 exactly when all
\* five conditions hold, always has a table row, and the scores 6, 7 and 8
\* all give (Insomnia, 0.10, 0.90).
C2_ScoreRange ==
    pc = "done" =>
        LET s == RuleScore(arg)
        IN  /\ s \in 0..8
            /\ s = 8 <=> \A k \in 1..5 : Triggers(arg)[k]
            /\ ret \in { TableRow(k) : k \in 0..8 }
            /\ s \in {6, 7, 8} => ret = Result(1, 10, 90)

\* the record with all five conditions has been scored
C2_Witness ==
    /\ pc = "done"
    /\ RuleScore(arg) = 8
    /\ ret = Result(1, 10, 90)

\* C3: the two probabilities returned by the scorer sum to 1 (100
\* hundredths) and each lies strictly between 0 and 1.
C3_ProbabilitiesSumToOne ==
    pc = "done" =>
        LET p == ret.prediction_proba
        IN  /\ Len(p) = 2
            /\ p[1] + p[2] = 100
            /\ p[1] \in 1..99
            /\ p[2] \in 1..99

\* a score-4 record has been scored: the row (0.40, 0.60)
C3_Witness ==
    /\ pc = "done"
    /\ RuleScore(arg) = 4
    /\ ret.prediction_proba = <<40, 60>>

(***************************************************************************)
(* The recommendation tiers (checked under SpecDisplay)                    *)
(***************************************************************************)
\* the tier named for a label and the probability of that label
AdviceTier(label, p) ==
    IF label = 1
        THEN CASE p >= 80 -> "high"
               [] 60 <= p /\ p < 80 -> "moderate"
               [] p < 60 -> "low"
        ELSE CASE p >= 90 -> "excellent"
               [] 70 <= p /\ p < 90 -> "good"
               [] p < 70 -> "fair"

\* C7: for every Risk Result display_results renders exactly one advice
\* tier, chosen by the probability of the predicted class, with the
\* boundaries 0.60, 0.70, 0.80 and 0.90 in the upper tier.
C7_TierByPredictedClass ==
    (pc = "done" /\ arg.prediction \in {0, 1}
        /\ arg.prediction_proba # NoProba) =>
        LET p == arg.prediction_proba
        IN  ret = << AdviceTier(arg.prediction,
                                IF arg.prediction = 1 THEN p[2] ELSE p[1]) >>

\* an Insomnia result with pInsomnia exactly 0.80 has been rendered
C7_Witness ==
    /\ pc = "done"
    /\ arg.prediction = 1
    /\ arg.prediction_proba = <<20, 80>>
    /\ ret = <<"high">>

(***************************************************************************)
(* preprocess_input (checked under SpecPreprocess)                         *)
(***************************************************************************)
SlashCount(s) == Cardinality({ i \in 1..Len(s) : s[i] = "/" })

\* the text before the first "/" and the text after it up to the next
SystolicText(s) == Split(s)[1]

DiastolicText(s) == Split(s)[2]

\* C8: preprocess_input fails when the blood-pressure text is empty, has no
\* "/", or has a systolic or diastolic part that is not a number; when it
\* returns a row, Systolic and Diastolic are the numbers written, never a
\* default.
C8_MalformedBPFails ==
    pc = "done" =>
        LET bp == arg.Blood_Pressure
        IN  /\ (bp = <<>> \/ ~Has(bp, "/")) => ret = ValueError
            /\ (Has(bp, "/") /\ ~FloatOk(SystolicText(bp))) => ret = ValueError
            /\ (Has(bp, "/") /\ ~FloatOk(DiastolicText(bp))) =>
                   ret = ValueError
            /\ ret # ValueError =>
                   /\ ret[10] = Col("Systolic", Num(FloatVal(SystolicText(bp))))
                   /\ ret[11] =
                          Col("Diastolic", Num(FloatVal(DiastolicText(bp))))

\* "a/8" has been given to preprocess_input, which raised
C8_Witness ==
    /\ pc = "done"
    /\ arg.Blood_Pressure = <<"a", "/", "8">>
    /\ ret = ValueError

\* C9: preprocess_input returns a row only for a blood-pressure text with
\* exactly one "/" and a number on each side of it.
C9_ExactlyOneSlash ==
    (pc = "done" /\ ret # ValueError) =>
        LET bp == arg.Blood_Pressure
        IN  /\ SlashCount(bp) = 1
            /\ FloatOk(SystolicText(bp))
            /\ FloatOk(DiastolicText(bp))

ExpectedColumns ==
    << "Gender", "Age", "Sleep Duration", "Quality of Sleep",
       "Physical Activity Level", "Stress Level", "BMI Category",
       "Heart Rate", "Daily Steps", "Systolic", "Diastolic",
       "Sleep_Efficiency", "Stress_Sleep_Interaction", "Activity_Efficiency",
       "Stress_Sleep_Ratio", "Sleep_Age_Ratio" >>

\* C10: for every record the form accepts whose blood pressure is "S/D"
\* with numbers S and D, preprocess_input returns the 16 columns in the
\* fixed order, every one a defined number, with Gender 0 for female and 1
\* for male, BMI Category 0, 1 or 2, Systolic S, Diastolic D and
\* Stress_Sleep_Interaction the product of stress level and sleep quality.
C10_FeatureVector ==
    LET bp == arg.Blood_Pressure
    IN  (/\ pc = "done"
         /\ arg.Gender \in GenderOptions
         /\ arg.BMI_Category \in BMIOptions
         /\ FormError(arg) = "none"
         /\ SlashCount(bp) = 1
         /\ FloatOk(SystolicText(bp))
         /\ FloatOk(DiastolicText(bp))) =>
            /\ ret # ValueError
            /\ Len(ret) = 16
            /\ \A k \in 1..16 :
                   ret[k].col = ExpectedColumns[k] /\ Defined(ret[k].val)
            /\ ret[1].val =
                   (IF arg.Gender = "Perempuan" THEN Num(0) ELSE Num(1))
            /\ ret[7].val =
                   (IF arg.BMI_Category = "Obese" THEN Num(2)
                    ELSE IF arg.BMI_Category = "Overweight" THEN Num(1)
                    ELSE Num(0))
            /\ ret[10].val = Num(FloatVal(SystolicText(bp)))
            /\ ret[11].val = Num(FloatVal(DiastolicText(bp)))
            /\ ret[13].val = Num(arg.Stress_Level * arg.Quality_of_Sleep)

(***************************************************************************)
(* The submission flow (checked under Spec)                                *)
(***************************************************************************)
\* the Occupation domain: not empty, only letters, spaces, hyphens, periods
OccupationWellFormed(s) ==
    /\ s # <<>>
    /\ \A i \in 1..Len(s) : s[i] \in Letters \cup {" ", "-", "."}

\* a valid Input Record: every field in its domain and the blood pressure
\* two numbers around one "/"
ValidRecord(d) ==
    /\ d.Gender \in GenderOptions
    /\ d.Age \in AgeMin..AgeMax
    /\ OccupationWellFormed(d.Occupation)
    /\ d.Sleep_Duration \in Hours(SleepMin)..Hours(SleepMax)
    /\ d.Quality_of_Sleep \in Scale
    /\ d.Physical_Activity_Level \in Scale
    /\ d.Stress_Level \in Scale
    /\ d.BMI_Category \in BMICategories
    /\ d.Heart_Rate \in HeartMin..HeartMax
    /\ d.Daily_Steps \in StepsMin..StepsMax
    /\ SlashCount(d.Blood_Pressure) = 1
    /\ FloatOk(SystolicText(d.Blood_Pressure))
    /\ FloatOk(DiastolicText(d.Blood_Pressure))

\* C4: the scorer is only ever invoked on a valid stored record.
C4_OnlyValidRecordsScored ==
    scored # NoRecord => ValidRecord(scored)

\* C5: a submission that fails a validation check is not scored, stores
\* nothing and leaves the page 'home' with no result on it; the result page
\* is entered only with a stored record that passes every check.
C5_RejectionIsTerminal ==
    [][ /\ formError' # "none" =>
              /\ page = "home"
              /\ page' = "home"
              /\ view' = "home"
              /\ input_data' = input_data
              /\ scored' = NoRecord
              /\ risk' = NoResult
              /\ advice' = <<>>
        /\ (view # "result" /\ view' = "result") =>
              /\ formError' = "none"
              /\ input_data' # NoRecord
              /\ FormError(input_data') = "none"
              /\ scored' = input_data'
      ]_vars

\* a submission has been rejected for its blood pressure while an earlier
\* accepted record is stored
C5_Witness ==
    /\ formError = "blood_pressure"
    /\ input_data # NoRecord
    /\ view = "home"
    /\ risk = NoResult

\* C6: a failed model load does not block the flow: the run still shows
\* the pages, so the form can be reached and submitted.
C6_ModelFailureDoesNotBlock ==
    model = "none" => view \in Pages \cup {"welcome"}

(***************************************************************************)
(* Monotonicity of the score (checked under SpecScorerPair)                *)
(***************************************************************************)
TriggerSet(d) == { k \in 1..5 : Triggers(d)[k] }

\* the second record triggers what the first triggers and one more condition
OneMoreTrigger(d1, d2) ==
    /\ TriggerSet(d1) \subseteq TriggerSet(d2)
    /\ Cardinality(TriggerSet(d2)) = Cardinality(TriggerSet(d1)) + 1

\* C11: when a second valid record triggers every condition the first
\* triggers plus one more, its score is not lower than the first's (and so
\* neither is the probability of insomnia returned for it).
C11_ScoreMonotonic ==
    (pc = "done" /\ OneMoreTrigger(arg[1], arg[2])) =>
        /\ RuleScore(arg[1]) <= RuleScore(arg[2])
        /\ ret[1].prediction_proba[2] <= ret[2].prediction_proba[2]
        /\ ret[1].prediction <= ret[2].prediction

\* two scored records that differ by the activity condition alone
C11_Witness ==
    /\ pc = "done"
    /\ OneMoreTrigger(arg[1], arg[2])
    /\ TriggerSet(arg[2]) \ TriggerSet(arg[1]) = {4}
    /\ RuleScore(arg[2]) = RuleScore(arg[1]) + 1

(***************************************************************************)
(* The scorer inside the flow (checked under Spec)                         *)
(***************************************************************************)
\* C12: the scorer has no hidden state: whatever submissions, navigation
\* and model-load outcome came before, the result on the screen is the
\* table row of the scored record alone, so two calls on the same record
\* give the same result; and a step in which the scorer runs leaves the
\* record it was given as the stored record and the rest of the session
\* state ('started', the cached model) as it was.
C12_ScorerHasNoHiddenState ==
    [][ /\ risk' # NoResult =>
              /\ scored' # NoRecord
              /\ risk' = TableRow(TableScore(scored'))
        /\ scored' # NoRecord =>
              /\ input_data' = scored'
              /\ started' = started
              /\ model' = model
      ]_vars

\* a record of score 7 is on the result page
C12_Witness ==
    /\ view = "result"
    /\ scored = input_data
    /\ TableScore(scored) = 7
    /\ risk = Result(1, 10, 90)

(***************************************************************************)
(* Navigation (checked under Spec)                                         *)
(***************************************************************************)
SidebarPage(b) ==
    CASE b = "btn_home" -> "home"
      [] b = "btn_info" -> "info"
      [] b = "btn_credit" -> "credit"

\* the changes of 'page' the navigation allows
PageStep ==
    \/ page' = page
    \/ page = "unset" /\ page' = "home"
    \/ page \in Pages /\ page' \in {"home", "info", "credit"}
    \/ /\ page = "home"
       /\ page' = "result"
       /\ formError' = "none"
       /\ input_data' # NoRecord
       /\ FormError(input_data') = "none"
    \/ page' = "unset" /\ started' = FALSE

\* C13: within a session the page is one of home, result, info, credit
\* once it is set; its first value is home; from any page each sidebar
\* button leads to its page; result is entered only from home by a
\* submission that passes every check; Kembali leads from result to home;
\* there is no other change of page.
C13_NavigationFSM ==
    /\ [](page \in Pages \cup {"unset"})
    /\ [](view \in Pages => page = view)
    /\ [](view \in Pages =>
            \A b \in {"btn_home", "btn_info", "btn_credit"} :
                ENABLED (ClickSidebar(b) /\ page' = SidebarPage(b)))
    /\ [](view = "result" => ENABLED (ClickKembali /\ page' = "home"))
    /\ [][PageStep]_vars

\* the Info page reached after a result was shown
C13_Witness ==
    /\ page = "info"
    /\ view = "info"
    /\ input_data # NoRecord

(***************************************************************************)
(* The occupation check (checked under SpecOccupation)                     *)
(***************************************************************************)
OccupationErrors == {"missing", "occupation_empty", "occupation_format"}

\* C14 as stated: a submission passes the occupation check exactly when the
\* occupation is not empty and made only of letters, spaces, hyphens and
\* periods, texts without any letter such as "-" included.
C14_OccupationDomain ==
    pc = "done" =>
        /\ ret = "none" <=> OccupationWellFormed(arg.Occupation)
        /\ ret # "none" => ret \in OccupationErrors

HasLetter(s) == \E i \in 1..Len(s) : s[i] \in Letters

\* C14 as amended: a submission passes the occupation check exactly when
\* the occupation is made only of letters, spaces, hyphens and periods and
\* holds at least one letter; every other text is rejected with an error.
C14_OccupationNeedsLetter ==
    pc = "done" =>
        /\ ret = "none" <=>
               (OccupationWellFormed(arg.Occupation) /\ HasLetter(arg.Occupation))
        /\ ret # "none" => ret \in OccupationErrors

\* "-" has been submitted as the occupation and rejected
C14_Witness ==
    /\ pc = "done"
    /\ arg.Occupation = <<"-">>
    /\ ret = "occupation_format"

(***************************************************************************)
(* The record on the result page (checked under Spec)                      *)
(***************************************************************************)
AcceptedForms == { f \in FormInputs : FormError(f) = "none" }

\* C15: whenever the page is 'result' a record is stored and the result
\* rendered is the scorer's for that record; submitting an acceptable form
\* always stores that very form; and the stored record changes only in
\* such a step (rejected submissions, the sidebar and Kembali leave it
\* alone; a new session starts without one).
C15_ResultShowsLatestRecord ==
    /\ [](page = "result" =>
            /\ view = "result"
            /\ input_data # NoRecord
            /\ scored = input_data
            /\ risk = TableRow(TableScore(input_data))
            /\ advice = display_results(risk.prediction, risk.prediction_proba))
    /\ [](view = "home" =>
            \A f \in AcceptedForms :
                /\ ENABLED (Submit(f) /\ page' = "result")
                /\ ~ENABLED (Submit(f) /\ input_data' # f))
    /\ [][ input_data' # input_data =>
              \/ /\ view = "home"
                 /\ page' = "result"
                 /\ formError' = "none"
                 /\ input_data' \in AcceptedForms
              \/ /\ started' = FALSE
                 /\ input_data' = NoRecord
         ]_vars

\* the result page shows an accepted record of score 3
C15_Witness ==
    /\ page = "result"
    /\ input_data \in AcceptedForms
    /\ input_data.Blood_Pressure = BP_120_80
    /\ risk = Result(1, 55, 45)

(***************************************************************************)
(* The advice for a score (checked under SpecAdvice)                       *)
(***************************************************************************)
ScoreTier(s) ==
    CASE s = 0 -> "excellent"
      [] s \in {1, 2} -> "good"
      [] s = 3 -> "low"
      [] s \in {4, 5} -> "moderate"
      [] s \in {6, 7, 8} -> "high"

\* C16: the advice rendered for a valid Input Record is the one tier its
\* score decides (0 excellent; 1, 2 good; 3 low; 4, 5 moderate; 6..8 high);
\* the 'fair' tier and the 'unrecognised prediction' error are never
\* rendered.
C16_TierByScore ==
    pc = "done" =>
        /\ ret.advice = << ScoreTier(TableScore(arg)) >>
        /\ \A k \in 1..Len(ret.advice) :
               ret.advice[k] \notin {"fair", "unrecognised"}

\* a record of score 2, the lowest probability of Normal, got 'good'
C16_Witness ==
    /\ pc = "done"
    /\ TableScore(arg) = 2
    /\ ret.result = Result(0, 70, 30)
    /\ ret.advice = <<"good">>

====
